---- MODULE Spec2Model ----
(***************************************************************************)
(* Model of the agent layer of the development-assistant application:      *)
(* utils/helpers.py (input validation, response sanitization),             *)
(* agents/base_agent.py (bounded history, process_request),                *)
(* agents/multi_ai_agent.py (provider configuration, switching, reply      *)
(* generation) and agents/openai_agent.py (single-provider base).          *)
(*                                                                         *)
(* Python str values are TLA+ strings; a value that may be None or a       *)
(* non-string object is a record [kind, s] with kind "str", "none", "obj". *)
(***************************************************************************)
EXTENDS Integers, Sequences, FiniteSets, TLC

VARIABLES
    env,                    \* os.environ: the variables the agents read
    installed,              \* importable provider packages
    constructed,            \* TRUE when an agent instance exists
    cls,                    \* class of the instance: "MultiAIAgent" | "OpenAIAgent"
    agent_type,             \* self.agent_type
    provider,               \* self.provider (MultiAIAgent)
    config,                 \* self.config
    client,                 \* self.client
    conversation_history,   \* self.conversation_history
    clock,                  \* number of datetime.now() readings so far
    appended,               \* observation: every turn appended since the last clear
    last,                   \* observation: the last call, its argument and outcome
    steps,                  \* number of calls made so far (bounded by MaxSteps)
    heap,                   \* concurrent runs: list objects, by identity
    cur,                    \* concurrent runs: identity of self.conversation_history
    th,                     \* concurrent runs: per-thread frame of process_request
    tempfiles,              \* temporary files on disk written by the code validator
    spawned,                \* number of toolchain subprocesses started so far
    default_provider,       \* web page: StreamlitInterface.default_provider
    agents,                 \* web page: StreamlitInterface.agents, persona -> agent
    chat_history,           \* web page: st.session_state.chat_history, persona -> transcript
    current_agent,          \* web page: st.session_state.current_agent
    disk,                   \* verification script: the paths that exist
    thin                    \* verification script: test files of at most 100 characters

vars == <<env, installed, constructed, cls, agent_type, provider, config, client,
          conversation_history, clock, appended, last, steps, heap, cur, th,
          tempfiles, spawned, default_provider, agents, chat_history, current_agent,
          disk, thin>>

agentVars == <<constructed, cls, agent_type, provider, config, client>>
concVars == <<heap, cur, th>>
toolVars == <<tempfiles, spawned>>
uiVars == <<default_provider, agents, chat_history, current_agent>>
diskVars == <<disk, thin>>

----------------------------------------------------------------------------
(* Bounds of the model *)

MaxSteps == 2
MaxPrefill == 11
NThreads == 2
MaxLen == 4
MaxClicks == 5

(* Program constants *)

MaxHistory == 20
ContextTurns == 10
DefaultMaxLength == 2000
QwenMinKeyLength == 10

----------------------------------------------------------------------------
(* Python str operations *)

Min(a, b) == IF a < b THEN a ELSE b
Max(a, b) == IF a > b THEN a ELSE b

CharAt(s, i) == SubSeq(s, i, i)

Whitespace == {" ", "\t", "\n", "\r"}

RECURSIVE Rep(_, _)
Rep(c, n) ==
    IF n = 0 THEN ""
    ELSE LET h == Rep(c, n \div 2)
         IN  IF n % 2 = 1 THEN h \o h \o c ELSE h \o h

\* index of the first non-whitespace character at or after i (Len(s) + 1 if none)
RECURSIVE FirstNonSpace(_, _)
FirstNonSpace(s, i) ==
    IF i > Len(s) THEN i
    ELSE IF CharAt(s, i) \notin Whitespace THEN i
    ELSE FirstNonSpace(s, i + 1)

\* index of the last non-whitespace character at or before i (0 if none)
RECURSIVE LastNonSpace(_, _)
LastNonSpace(s, i) ==
    IF i < 1 THEN 0
    ELSE IF CharAt(s, i) \notin Whitespace THEN i
    ELSE LastNonSpace(s, i - 1)

\* str.strip(): drop leading and trailing whitespace
Strip(s) == SubSeq(s, FirstNonSpace(s, 1), LastNonSpace(s, Len(s)))

\* str.startswith(p)
StartsWith(s, p) == Len(s) >= Len(p) /\ SubSeq(s, 1, Len(p)) = p

\* p in s
Contains(s, p) ==
    \E i \in 1..(Len(s) - Len(p) + 1) : SubSeq(s, i, i + Len(p) - 1) = p

\* s.split('\n'): the pieces between newlines, empty pieces included
SplitLines(s) ==
    LET nl == {i \in 1..Len(s) : CharAt(s, i) = "\n"}
        cuts == {0} \cup nl \cup {Len(s) + 1}
        start(k) == CHOOSE c \in cuts : Cardinality({d \in cuts : d < c}) = k - 1
    IN  [k \in 1..(Cardinality(nl) + 1) |->
            SubSeq(s, start(k) + 1, start(k + 1) - 1)]

\* '\n'.join(lines)
RECURSIVE JoinLines(_)
JoinLines(lines) ==
    IF lines = <<>> THEN ""
    ELSE IF Len(lines) = 1 THEN lines[1]
    ELSE lines[1] \o "\n" \o JoinLines(Tail(lines))

Str(s) == [kind |-> "str", s |-> s]
None == [kind |-> "none", s |-> ""]
Obj == [kind |-> "obj", s |-> ""]

\* Python truthiness of a str, None or a plain object
Truthy(v) == v.kind = "obj" \/ (v.kind = "str" /\ v.s # "")

----------------------------------------------------------------------------
(* utils/helpers.py *)

\* The user-visible messages are Chinese literals in the source; they are
\* written here in ASCII, the apology term (U+62B1 U+6B49) as "Sorry".
ApologyTerm == "Sorry"
InvalidInputMsg == "Invalid input, please provide a valid question or request."
FallbackMsg == "Sorry, unable to generate a response."
ApologyPrefix == "Sorry, an error occurred while processing your request: "
QwenSdkMsg == "Qwen SDK is not installed correctly, please check the configuration."
NoSplitMsg == "'Obj' object has no attribute 'split'"
NoStripMsg == "'Obj' object has no attribute 'strip'"

\* validate_agent_input(user_input, max_length): a bool, or an AttributeError
\* for a truthy value that is no str
ValidateAgentInputRaises(u) == u.kind = "obj"

\* validate_agent_input rejecting an input of exactly max_length characters
ValidateAgentInput_LimitExclusive(u, max_length) ==
    IF ~Truthy(u) \/ Strip(u.s) = "" THEN FALSE
    ELSE IF Len(u.s) >= max_length THEN FALSE
    ELSE TRUE
\* validate_agent_input without the strip() test
ValidateAgentInput_NoStrip(u, max_length) ==
    IF ~Truthy(u) THEN FALSE
    ELSE IF Len(u.s) > max_length THEN FALSE
    ELSE TRUE

ValidateAgentInput(u, max_length) ==
    IF ~Truthy(u) \/ Strip(u.s) = "" THEN FALSE
    ELSE IF Len(u.s) > max_length THEN FALSE
    ELSE TRUE

\* sanitize_response(response): [raised, value]; value is the exception text
\* when raised
SanitizeResponse(r) ==
    IF ~Truthy(r) THEN [raised |-> FALSE, value |-> FallbackMsg]
    ELSE IF r.kind = "obj" THEN [raised |-> TRUE, value |-> NoSplitMsg]
    ELSE LET parts == SplitLines(r.s)
             lines == SelectSeq([k \in 1..Len(parts) |-> Strip(parts[k])],
                                LAMBDA l : l # "")
         IN  [raised |-> FALSE, value |-> JoinLines(lines)]

----------------------------------------------------------------------------
(* config/settings.py and the environment *)

Providers == {"openai", "claude", "qwen"}
Packages == {"openai", "anthropic", "dashscope"}
AgentTypes == {"operations", "go", "monitoring", "ansible"}
EnvNames == {"OPENAI_API_KEY", "CLAUDE_API_KEY", "QWEN_API_KEY", "OPENAI_BASE_URL"}

\* os.getenv(name, default)
Getenv(name, default) ==
    IF name \notin DOMAIN env \/ env[name].kind = "none" THEN default ELSE env[name].s

\* the persona's system prompt literal: unknown types fall back to "operations"
SystemPrompt(t) ==
    IF t \in AgentTypes THEN "prompt of " \o t ELSE "prompt of operations"

\* get_agent_config(agent_type)
GetAgentConfig(t) ==
    [model_name |-> Getenv("MODEL_NAME", "gpt-3.5-turbo"),
     system_prompt |-> SystemPrompt(t),
     api_key |-> Getenv("OPENAI_API_KEY", "")]

----------------------------------------------------------------------------
(* agents/multi_ai_agent.py: configuration and client *)

OpenAIBaseUrl == "https://api.openai.com/v1"

\* MultiAIAgent._get_provider_config, for self.provider = p
GetProviderConfig(t, p) ==
    IF p = "claude"
    THEN [api_key |-> Getenv("CLAUDE_API_KEY", ""),
          base_url |-> "https://api.anthropic.com",
          model |-> Getenv("CLAUDE_MODEL", "claude-3-sonnet-20240229"),
          system_prompt |-> GetAgentConfig(t).system_prompt]
    ELSE IF p = "qwen"
    THEN [api_key |-> Getenv("QWEN_API_KEY", ""),
          base_url |-> "https://dashscope.aliyuncs.com/api/v1",
          model |-> Getenv("QWEN_MODEL", "qwen-turbo"),
          system_prompt |-> GetAgentConfig(t).system_prompt]
    ELSE [api_key |-> Getenv("OPENAI_API_KEY", ""),
          base_url |-> OpenAIBaseUrl,
          model |-> Getenv("OPENAI_MODEL", "gpt-3.5-turbo"),
          system_prompt |-> GetAgentConfig(t).system_prompt]

NoClient == [kind |-> "None", api_key |-> ""]
UnsupportedMsg(p) == "unsupported AI provider: " \o p
NoModuleMsg(m) == "No module named '" \o m \o "'"

\* _initialize_client that treats an unknown provider as openai, the way
\* _get_provider_config does
InitializeClient_DefaultsToOpenAI(p, cfg) ==
    IF p = "claude" THEN
        IF "anthropic" \in installed
        THEN [raised |-> FALSE, error |-> "", value |-> "", created |-> 1,
              client |-> [kind |-> "Anthropic", api_key |-> cfg.api_key]]
        ELSE [raised |-> TRUE, error |-> "ImportError", value |-> NoModuleMsg("anthropic"),
              created |-> 0, client |-> NoClient]
    ELSE IF p = "qwen" THEN
        IF "dashscope" \in installed
        THEN [raised |-> FALSE, error |-> "", value |-> "", created |-> 0,
              client |-> [kind |-> "Generation", api_key |-> ""]]
        ELSE [raised |-> FALSE, error |-> "", value |-> "", created |-> 0,
              client |-> NoClient]
    ELSE
        IF "openai" \in installed
        THEN [raised |-> FALSE, error |-> "", value |-> "", created |-> 1,
              client |-> [kind |-> "OpenAI", api_key |-> cfg.api_key]]
        ELSE [raised |-> TRUE, error |-> "ImportError", value |-> NoModuleMsg("openai"),
              created |-> 0, client |-> NoClient]

\* MultiAIAgent._initialize_client, for self.provider = p and self.config = cfg:
\* [raised, error, value, client, created]; created counts the client
\* constructors that ran
InitializeClient(p, cfg) ==
    IF p = "openai" THEN
        IF "openai" \in installed
        THEN [raised |-> FALSE, error |-> "", value |-> "", created |-> 1,
              client |-> [kind |-> "OpenAI", api_key |-> cfg.api_key]]
        ELSE [raised |-> TRUE, error |-> "ImportError", value |-> NoModuleMsg("openai"),
              created |-> 0, client |-> NoClient]
    ELSE IF p = "claude" THEN
        IF "anthropic" \in installed
        THEN [raised |-> FALSE, error |-> "", value |-> "", created |-> 1,
              client |-> [kind |-> "Anthropic", api_key |-> cfg.api_key]]
        ELSE [raised |-> TRUE, error |-> "ImportError", value |-> NoModuleMsg("anthropic"),
              created |-> 0, client |-> NoClient]
    ELSE IF p = "qwen" THEN
        IF "dashscope" \in installed
        THEN [raised |-> FALSE, error |-> "", value |-> "", created |-> 0,
              client |-> [kind |-> "Generation", api_key |-> ""]]
        ELSE [raised |-> FALSE, error |-> "", value |-> "", created |-> 0,
              client |-> NoClient]
    ELSE [raised |-> TRUE, error |-> "ValueError", value |-> UnsupportedMsg(p),
          created |-> 0, client |-> NoClient]

----------------------------------------------------------------------------
(* agents/base_agent.py: history *)

Turn(role, content, ts) == [role |-> role, content |-> content, timestamp |-> ts]

LastN(n, seq) == SubSeq(seq, Len(seq) - Min(n, Len(seq)) + 1, Len(seq))

\* add_to_history keeping the oldest MaxHistory turns ([:20] for [-20:])
AddToHistory_KeepsOldest(hist, role, content, ts) ==
    LET h == Append(hist, Turn(role, content, ts))
    IN  IF Len(h) > MaxHistory THEN SubSeq(h, 1, MaxHistory) ELSE h

\* BaseAgent.add_to_history: the history after appending one turn
AddToHistory(hist, role, content, ts) ==
    LET h == Append(hist, Turn(role, content, ts))
    IN  IF Len(h) > MaxHistory THEN LastN(MaxHistory, h) ELSE h

\* the header sentence of the context
ContextHeader == "Previous conversation:"

\* context += f"{entry['role']}: {entry['content']}\n" over the entries
RECURSIVE ContextLines(_)
ContextLines(entries) ==
    IF entries = <<>> THEN ""
    ELSE Head(entries).role \o ": " \o Head(entries).content \o "\n"
         \o ContextLines(Tail(entries))

\* get_conversation_context that renders the oldest ContextTurns turns ([:10])
GetConversationContext_OldestTurns(hist) ==
    IF hist = <<>> THEN ""
    ELSE ContextHeader \o "\n"
         \o ContextLines(SubSeq(hist, 1, Min(ContextTurns, Len(hist))))

\* BaseAgent.get_conversation_context
GetConversationContext(hist) ==
    IF hist = <<>> THEN ""
    ELSE ContextHeader \o "\n" \o ContextLines(LastN(ContextTurns, hist))

----------------------------------------------------------------------------
(* reply generation *)

\* the messages _generate_openai_response sends, hist being the history at the
\* time of the call
OpenAIMessages(prompt, hist, user_input) ==
    <<[role |-> "system", content |-> prompt]>>
    \o (IF GetConversationContext(hist) # ""
        THEN <<[role |-> "system", content |-> GetConversationContext(hist)]>>
        ELSE <<>>)
    \o <<[role |-> "user", content |-> user_input]>>

Reply(c) == [kind |-> "reply", content |-> c, msg |-> ""]
Raise(m) == [kind |-> "raise", content |-> None, msg |-> m]

\* MultiAIAgent._generate_response with its three provider paths, for the
\* outcome o of the provider call: [raised, value, calls]
MultiGenerateResponse(p, cl, o) ==
    IF p = "qwen" /\ cl.kind = "None"
    THEN [raised |-> FALSE, value |-> Str(QwenSdkMsg), calls |-> 0]
    ELSE IF o.kind = "raise"
    THEN [raised |-> FALSE, value |-> Str(ApologyPrefix \o o.msg), calls |-> 1]
    ELSE [raised |-> FALSE, calls |-> 1,
          value |-> IF Truthy(o.content) THEN o.content ELSE Str(FallbackMsg)]

\* OpenAIAgent._generate_response: the exception is logged and raised again
OpenAIGenerateResponse(o) ==
    IF o.kind = "raise"
    THEN [raised |-> TRUE, value |-> Str(o.msg), calls |-> 1]
    ELSE [raised |-> FALSE, calls |-> 1,
          value |-> IF o.content.kind = "none" THEN Str(FallbackMsg) ELSE o.content]

GenerateResponse(c, p, cl, o) ==
    IF c = "MultiAIAgent" THEN MultiGenerateResponse(p, cl, o)
    ELSE OpenAIGenerateResponse(o)

\* process_request that records the user turn only after the reply is generated
ProcessRequestOn_RecordsUserLate(c, p, cl, hist, clk, u, o) ==
    IF ~ValidateAgentInput(u, DefaultMaxLength)
    THEN [history |-> hist, clock |-> clk, turns |-> <<>>,
          value |-> InvalidInputMsg, calls |-> 0, caught |-> FALSE, seen |-> <<>>]
    ELSE
      LET gen == GenerateResponse(c, p, cl, o)
          san == SanitizeResponse(gen.value)
          sn  == IF gen.calls > 0 THEN hist ELSE <<>>
          h1  == AddToHistory(hist, "user", u.s, clk + 1)
          t1  == <<Turn("user", u.s, clk + 1)>>
      IN  IF gen.raised
          THEN [history |-> hist, clock |-> clk, turns |-> <<>>,
                value |-> ApologyPrefix \o gen.value.s, calls |-> gen.calls,
                caught |-> TRUE, seen |-> sn]
          ELSE IF san.raised
          THEN [history |-> hist, clock |-> clk, turns |-> <<>>,
                value |-> ApologyPrefix \o san.value, calls |-> gen.calls,
                caught |-> TRUE, seen |-> sn]
          ELSE [history |-> AddToHistory(h1, "assistant", san.value, clk + 2),
                clock |-> clk + 2,
                turns |-> t1 \o <<Turn("assistant", san.value, clk + 2)>>,
                value |-> san.value, calls |-> gen.calls,
                caught |-> FALSE, seen |-> sn]

\* BaseAgent.process_request on history hist with the clock at clk:
\* [history, clock, turns, value, calls, caught, seen]; turns are the turns it
\* appended, caught tells that the handler's except clause produced the value,
\* seen is the history the provider path read when it was called
ProcessRequestOn(c, p, cl, hist, clk, u, o) ==
    IF ~ValidateAgentInput(u, DefaultMaxLength)
    THEN [history |-> hist, clock |-> clk, turns |-> <<>>,
          value |-> InvalidInputMsg, calls |-> 0, caught |-> FALSE, seen |-> <<>>]
    ELSE
      LET h1  == AddToHistory(hist, "user", u.s, clk + 1)
          t1  == <<Turn("user", u.s, clk + 1)>>
          gen == GenerateResponse(c, p, cl, o)
          san == SanitizeResponse(gen.value)
          sn  == IF gen.calls > 0 THEN h1 ELSE <<>>
      IN  IF gen.raised
          THEN [history |-> h1, clock |-> clk + 1, turns |-> t1,
                value |-> ApologyPrefix \o gen.value.s, calls |-> gen.calls,
                caught |-> TRUE, seen |-> sn]
          ELSE IF san.raised
          THEN [history |-> h1, clock |-> clk + 1, turns |-> t1,
                value |-> ApologyPrefix \o san.value, calls |-> gen.calls,
                caught |-> TRUE, seen |-> sn]
          ELSE [history |-> AddToHistory(h1, "assistant", san.value, clk + 2),
                clock |-> clk + 2,
                turns |-> t1 \o <<Turn("assistant", san.value, clk + 2)>>,
                value |-> san.value, calls |-> gen.calls,
                caught |-> FALSE, seen |-> sn]

----------------------------------------------------------------------------
(* agents/multi_ai_agent.py: switching and validation *)

\* switch_provider that also resets the history
SwitchProviderOn_ClearsHistory(t, p, cfg, cl, hist, new) ==
    IF new \notin {"openai", "claude", "qwen"}
    THEN [raised |-> TRUE, error |-> "ValueError", value |-> UnsupportedMsg(new),
          provider |-> p, config |-> cfg, client |-> cl, history |-> hist]
    ELSE LET c2 == GetProviderConfig(t, new)
             ic == InitializeClient(new, c2)
         IN  [raised |-> ic.raised, error |-> ic.error, value |-> ic.value,
              provider |-> new, config |-> c2,
              client |-> IF ic.raised THEN cl ELSE ic.client,
              history |-> <<>>]

\* switch_provider that assigns self.provider before it validates the name
SwitchProviderOn_AssignsFirst(t, p, cfg, cl, hist, new) ==
    IF new \notin {"openai", "claude", "qwen"}
    THEN [raised |-> TRUE, error |-> "ValueError", value |-> UnsupportedMsg(new),
          provider |-> new, config |-> cfg, client |-> cl, history |-> hist]
    ELSE LET c2 == GetProviderConfig(t, new)
             ic == InitializeClient(new, c2)
         IN  [raised |-> ic.raised, error |-> ic.error, value |-> ic.value,
              provider |-> new, config |-> c2,
              client |-> IF ic.raised THEN cl ELSE ic.client,
              history |-> hist]

\* MultiAIAgent.switch_provider(new) on an agent of type t:
\* [raised, error, value, provider, config, client, history]
SwitchProviderOn(t, p, cfg, cl, hist, new) ==
    IF new \notin {"openai", "claude", "qwen"}
    THEN [raised |-> TRUE, error |-> "ValueError", value |-> UnsupportedMsg(new),
          provider |-> p, config |-> cfg, client |-> cl, history |-> hist]
    ELSE LET c2 == GetProviderConfig(t, new)
             ic == InitializeClient(new, c2)
         IN  [raised |-> ic.raised, error |-> ic.error, value |-> ic.value,
              provider |-> new, config |-> c2,
              client |-> IF ic.raised THEN cl ELSE ic.client,
              history |-> hist]

\* validate_provider_config without the length test on qwen keys
ValidateProviderConfig_NoQwenLength(p, cfg) ==
    IF cfg.api_key = ""
    THEN [ok |-> FALSE, message |-> p \o " API key not set"]
    ELSE IF p = "openai" /\ ~StartsWith(cfg.api_key, "sk-")
    THEN [ok |-> FALSE, message |-> "OpenAI API key format incorrect"]
    ELSE IF p = "claude" /\ ~StartsWith(cfg.api_key, "sk-ant-")
    THEN [ok |-> FALSE, message |-> "Claude API key format incorrect"]
    ELSE [ok |-> TRUE, message |-> "configuration valid"]
\* MultiAIAgent.validate_provider_config: [ok, message]
ValidateProviderConfig(p, cfg) ==
    IF cfg.api_key = ""
    THEN [ok |-> FALSE, message |-> p \o " API key not set"]
    ELSE IF p = "openai" /\ ~StartsWith(cfg.api_key, "sk-")
    THEN [ok |-> FALSE, message |-> "OpenAI API key format incorrect"]
    ELSE IF p = "claude" /\ ~StartsWith(cfg.api_key, "sk-ant-")
    THEN [ok |-> FALSE, message |-> "Claude API key format incorrect"]
    ELSE IF p = "qwen" /\ Len(cfg.api_key) < QwenMinKeyLength
    THEN [ok |-> FALSE, message |-> "Qwen API key format incorrect"]
    ELSE [ok |-> TRUE, message |-> "configuration valid"]

\* BaseAgent.get_agent_info on an agent of type t with history hist
GetAgentInfo(t, cfg, hist) ==
    [type |-> t, system_prompt |-> cfg.system_prompt, config |-> cfg,
     history_count |-> Len(hist)]

\* MultiAIAgent.get_provider_info
GetProviderInfo(p, cfg) ==
    [provider |-> p, model |-> cfg.model,
     api_key_status |-> IF cfg.api_key # "" THEN "set" ELSE "not set"]

----------------------------------------------------------------------------
(* construction *)

Classes == {"MultiAIAgent", "OpenAIAgent"}
NoAttr == "<no attribute>"
NoConfig == [api_key |-> ""]

\* MultiAIAgent.__init__(t, p): [raised, error, value, provider, config, client, created]
MultiInit(t, p) ==
    LET cfg == GetProviderConfig(t, p)
        ic  == InitializeClient(p, cfg)
    IN  [raised |-> ic.raised, error |-> ic.error, value |-> ic.value,
         provider |-> p, config |-> cfg, client |-> ic.client, created |-> ic.created]

\* OpenAIAgent.__init__(t); the module imports the openai package when loaded
OpenAIInit(t) ==
    IF "openai" \notin installed
    THEN [raised |-> TRUE, error |-> "ImportError", value |-> NoModuleMsg("openai"),
          provider |-> NoAttr, config |-> NoConfig, client |-> NoClient, created |-> 0]
    ELSE LET cfg == GetAgentConfig(t)
         IN  [raised |-> FALSE, error |-> "", value |-> "",
              provider |-> NoAttr, config |-> cfg, created |-> 1,
              client |-> [kind |-> "OpenAI", api_key |-> cfg.api_key]]

AgentInit(c, t, p) == IF c = "MultiAIAgent" THEN MultiInit(t, p) ELSE OpenAIInit(t)

----------------------------------------------------------------------------
(* Inputs of the model *)

ValidInputs == {Str("hi")}
InvalidInputs == {None, Str(""), Str(" \n"), Str(Rep("x", DefaultMaxLength + 1))}
UserInputs == ValidInputs \cup InvalidInputs

Replies == {Str("ok"), Str(" a\n\n b "), Str("  "), Str(""), None, Obj}
ErrorMessages == {"boom", "x\n\n y"}
Outcomes == {Reply(c) : c \in Replies} \cup {Raise(m) : m \in ErrorMessages}

DefaultInput == Str("hi")
DefaultOutcome == Reply(Str("ok"))

ProviderNames == Providers \cup {"not_a_real_provider"}

DefaultEnv ==
    [n \in EnvNames |->
        IF n = "OPENAI_API_KEY" THEN Str("sk-openai-key")
        ELSE IF n = "CLAUDE_API_KEY" THEN Str("sk-ant-key")
        ELSE IF n = "QWEN_API_KEY" THEN Str("qwen-key-0123")
        ELSE None]

NoOutcome == Reply(None)

\* the record of a call: its operation and argument, whether it raised (and
\* which error), its value or error text; for process_request the outcome of
\* the provider call, the number of provider calls, the turns it appended, the
\* history the provider path read, and whether the except clause was taken;
\* for a construction the class and the number of provider clients created;
\* for validate_provider_config and validate_agent_input the verdict, and for
\* validate_agent_input its max_length; for validate_code the language tag,
\* the temporary files it created and unlinked and the subprocesses it ran;
\* for a status check what it reported
Call(op, arg) ==
    [op |-> op, arg |-> arg, raised |-> FALSE, error |-> "", value |-> "",
     outcome |-> NoOutcome, calls |-> 0, turns |-> <<>>, seen |-> <<>>,
     caught |-> FALSE, created |-> 0, class |-> "", ok |-> TRUE, limit |-> 0,
     language |-> "", files |-> 0, unlinked |-> 0, runs |-> 0, report |-> <<>>]

\* the history and clock after n requests, each answered by the provider
RECURSIVE Prefill(_, _, _, _)
Prefill(c, p, cl, n) ==
    IF n = 0 THEN [history |-> <<>>, clock |-> 0, turns |-> <<>>]
    ELSE LET before == Prefill(c, p, cl, n - 1)
             r == ProcessRequestOn(c, p, cl, before.history, before.clock,
                                   DefaultInput, DefaultOutcome)
         IN  [history |-> r.history, clock |-> r.clock,
              turns |-> before.turns \o r.turns]

----------------------------------------------------------------------------
(* Sequential use of one agent *)

Idle == <<>>

Init ==
    /\ env = DefaultEnv
    /\ installed = Packages
    /\ constructed = TRUE
    /\ cls \in Classes
    /\ agent_type = "operations"
    /\ LET a == AgentInit(cls, agent_type, "openai")
       IN  /\ provider = a.provider
           /\ config = a.config
           /\ client = a.client
           /\ \E n \in 0..MaxPrefill :
                LET pre == Prefill(cls, a.provider, a.client, n)
                IN  /\ conversation_history = pre.history
                    /\ clock = pre.clock
                    /\ appended = pre.turns
    /\ last = Call("init", None)
    /\ steps = 0
    /\ tempfiles = {} /\ spawned = 0
    /\ default_provider = NoAttr /\ agents = Idle
    /\ chat_history = Idle /\ current_agent = NoAttr
    /\ disk = {} /\ thin = {}
    /\ heap = <<>> /\ cur = 0 /\ th = Idle

\* agent.process_request(u), the provider call ending in outcome o
ProcessRequest(u, o) ==
    /\ constructed /\ steps < MaxSteps
    /\ LET r == ProcessRequestOn(cls, provider, client, conversation_history, clock, u, o)
       IN  /\ conversation_history' = r.history
           /\ clock' = r.clock
           /\ appended' = appended \o r.turns
           /\ last' = [Call("process_request", u) EXCEPT
                            !.value = r.value, !.outcome = o, !.calls = r.calls,
                            !.turns = r.turns, !.seen = r.seen, !.caught = r.caught]
    /\ steps' = steps + 1
    /\ UNCHANGED <<env, installed, diskVars, toolVars, uiVars, agentVars, concVars>>

\* agent.add_to_history(role, content)
AddToHistoryCall(role, content) ==
    /\ constructed /\ steps < MaxSteps
    /\ conversation_history' = AddToHistory(conversation_history, role, content, clock + 1)
    /\ clock' = clock + 1
    /\ appended' = Append(appended, Turn(role, content, clock + 1))
    /\ last' = [Call("add_to_history", Str(content)) EXCEPT
                     !.turns = <<Turn(role, content, clock + 1)>>]
    /\ steps' = steps + 1
    /\ UNCHANGED <<env, installed, diskVars, toolVars, uiVars, agentVars, concVars>>

\* BaseAgent.clear_history
ClearHistory ==
    /\ constructed /\ steps < MaxSteps
    /\ conversation_history' = <<>>
    /\ appended' = <<>>
    /\ last' = Call("clear_history", None)
    /\ steps' = steps + 1
    /\ UNCHANGED <<env, installed, diskVars, toolVars, uiVars, agentVars, clock, concVars>>

\* agent.switch_provider(new)
SwitchProvider(new) ==
    /\ constructed /\ cls = "MultiAIAgent" /\ steps < MaxSteps
    /\ LET r == SwitchProviderOn(agent_type, provider, config, client,
                                 conversation_history, new)
       IN  /\ provider' = r.provider
           /\ config' = r.config
           /\ client' = r.client
           /\ conversation_history' = r.history
           /\ last' = [Call("switch_provider", Str(new)) EXCEPT
                            !.raised = r.raised, !.error = r.error, !.value = r.value]
    /\ steps' = steps + 1
    /\ UNCHANGED <<env, installed, diskVars, toolVars, uiVars, constructed, cls, agent_type, clock, appended, concVars>>

\* agent.get_conversation_context()
GetConversationContextCall ==
    /\ constructed /\ steps < MaxSteps
    /\ last' = [Call("get_conversation_context", None) EXCEPT
                     !.value = GetConversationContext(conversation_history)]
    /\ steps' = steps + 1
    /\ UNCHANGED <<env, installed, diskVars, toolVars, uiVars, agentVars,
                   conversation_history, clock, appended, concVars>>

\* agent.get_agent_info()
GetAgentInfoCall ==
    /\ constructed /\ steps < MaxSteps
    /\ last' = [Call("get_agent_info", None) EXCEPT
                     !.report = GetAgentInfo(agent_type, config, conversation_history)]
    /\ steps' = steps + 1
    /\ UNCHANGED <<env, installed, diskVars, toolVars, uiVars, agentVars,
                   conversation_history, clock, appended, concVars>>

\* agent.get_provider_info()
GetProviderInfoCall ==
    /\ constructed /\ cls = "MultiAIAgent" /\ steps < MaxSteps
    /\ last' = [Call("get_provider_info", None) EXCEPT
                     !.report = GetProviderInfo(provider, config)]
    /\ steps' = steps + 1
    /\ UNCHANGED <<env, installed, diskVars, toolVars, uiVars, agentVars,
                   conversation_history, clock, appended, concVars>>

Next ==
    \/ \E u \in UserInputs, o \in Outcomes : ProcessRequest(u, o)
    \/ \E role \in {"user", "assistant"} : AddToHistoryCall(role, "note")
    \/ GetConversationContextCall
    \/ GetAgentInfoCall
    \/ GetProviderInfoCall
    \/ ClearHistory
    \/ \E new \in ProviderNames : SwitchProvider(new)

Spec == Init /\ [][Next]_vars

\* Requests and clears only
NextReq ==
    \/ \E u \in UserInputs, o \in Outcomes : ProcessRequest(u, o)
    \/ ClearHistory

SpecReq == Init /\ [][NextReq]_vars

----------------------------------------------------------------------------
(* Construction and configuration under varying environments *)

VendorBaseUrl == "https://open.bigmodel.cn/api/paas/v4"
VendorKey == "66fa8bd3f4984c5d.FuGSLsJ40iE8f3zn"

EnvChoices ==
    {[n \in EnvNames |->
        IF n = "OPENAI_API_KEY" THEN ok
        ELSE IF n = "CLAUDE_API_KEY" THEN ck
        ELSE IF n = "QWEN_API_KEY" THEN qk
        ELSE url] :
     ok \in {None, Str(""), Str("sk-openai-key"), Str(VendorKey),
             Str("your_openai_api_key_here")},
     ck \in {None, Str("sk-ant-key"), Str("sk-other")},
     qk \in {None, Str("short"), Str("qwen-key-0123")},
     url \in {None, Str(VendorBaseUrl)}}

InstalledChoices ==
    {Packages, Packages \ {"dashscope"}, Packages \ {"anthropic"}, Packages \ {"openai"}}

InitCfg ==
    /\ env \in EnvChoices
    /\ installed \in InstalledChoices
    /\ constructed = FALSE
    /\ cls = NoAttr /\ agent_type = NoAttr /\ provider = NoAttr
    /\ config = NoConfig /\ client = NoClient
    /\ conversation_history = <<>> /\ clock = 0 /\ appended = <<>>
    /\ last = Call("init", None)
    /\ steps = 0
    /\ tempfiles = {} /\ spawned = 0
    /\ default_provider = NoAttr /\ agents = Idle
    /\ chat_history = Idle /\ current_agent = NoAttr
    /\ disk = {} /\ thin = {}
    /\ heap = <<>> /\ cur = 0 /\ th = Idle

\* agent = c(t, p): a new instance replaces the one held, unless __init__ raises
Construct(c, t, p) ==
    /\ steps < MaxSteps
    /\ LET a == AgentInit(c, t, p)
       IN  /\ last' = [Call("construct", Str(p)) EXCEPT
                            !.class = c, !.raised = a.raised, !.error = a.error,
                            !.value = a.value, !.created = a.created]
           /\ IF a.raised
              THEN UNCHANGED <<agentVars, conversation_history, appended>>
              ELSE /\ constructed' = TRUE
                   /\ cls' = c
                   /\ agent_type' = t
                   /\ provider' = a.provider
                   /\ config' = a.config
                   /\ client' = a.client
                   /\ conversation_history' = <<>>
                   /\ appended' = <<>>
    /\ steps' = steps + 1
    /\ UNCHANGED <<env, installed, diskVars, toolVars, uiVars, clock, concVars>>

\* agent.validate_provider_config()
ValidateProviderConfigCall ==
    /\ constructed /\ cls = "MultiAIAgent" /\ steps < MaxSteps
    /\ LET v == ValidateProviderConfig(provider, config)
       IN  last' = [Call("validate_provider_config", None) EXCEPT
                        !.ok = v.ok, !.value = v.message]
    /\ steps' = steps + 1
    /\ UNCHANGED <<env, installed, diskVars, toolVars, uiVars, agentVars, conversation_history, clock, appended,
                   concVars>>

NextCfg ==
    \/ \E c \in Classes, p \in ProviderNames : Construct(c, "operations", p)
    \/ \E new \in ProviderNames : SwitchProvider(new)
    \/ ValidateProviderConfigCall

SpecCfg == InitCfg /\ [][NextCfg]_vars

----------------------------------------------------------------------------
(* Concurrent process_request calls on one agent                           *)
(*                                                                         *)
(* Threads interleave between bytecodes. self.conversation_history names a *)
(* list object; reading the attribute, operating on the list read, and     *)
(* rebinding the attribute are separate steps, so a thread may append to   *)
(* or slice a list the attribute no longer names. heap holds the list      *)
(* objects, cur is the one the attribute names, and conversation_history   *)
(* is kept equal to heap[cur].                                             *)

Threads == 1..NThreads

ConcInputs == {Str("hi"), Str("")}
ConcOutcomes == {Reply(Str("ok")), Reply(Str("  ")), Raise("boom")}
ConcPrefills == {0, MaxPrefill - 2, MaxPrefill - 1}

IdleFrame ==
    [pc |-> "idle", input |-> None, outcome |-> NoOutcome, role |-> "",
     content |-> "", ts |-> 0, ref |-> 0, tmp |-> <<>>, ctx |-> <<>>,
     result |-> "", escaped |-> FALSE]

InitConc ==
    /\ env = DefaultEnv
    /\ installed = Packages
    /\ constructed = TRUE
    /\ cls \in Classes
    /\ agent_type = "operations"
    /\ LET a == AgentInit(cls, agent_type, "openai")
       IN  /\ provider = a.provider
           /\ config = a.config
           /\ client = a.client
           /\ \E n \in ConcPrefills :
                LET pre == Prefill(cls, a.provider, a.client, n)
                IN  /\ conversation_history = pre.history
                    /\ heap = <<pre.history>>
                    /\ clock = pre.clock
                    /\ appended = pre.turns
    /\ cur = 1
    /\ last = Call("init", None)
    /\ steps = 0
    /\ tempfiles = {} /\ spawned = 0
    /\ default_provider = NoAttr /\ agents = Idle
    /\ chat_history = Idle /\ current_agent = NoAttr
    /\ disk = {} /\ thin = {}
    /\ th = [t \in Threads |-> IdleFrame]

Frame(t) == th[t]

\* the thread's next step once add_to_history has returned
AfterHistory(f) == IF f.role = "user" THEN "g_load" ELSE "return"

ConcFrame == <<env, installed, diskVars, toolVars, uiVars, agentVars, last, steps>>

\* process_request entered: validate the input; add_to_history("user", ...)
\* reads the time and the attribute
T_Begin(t, u) ==
    /\ Frame(t).pc = "idle"
    /\ IF ~ValidateAgentInput(u, DefaultMaxLength)
       THEN /\ th' = [th EXCEPT ![t] = [@ EXCEPT !.pc = "done", !.input = u,
                                                 !.result = InvalidInputMsg]]
            /\ UNCHANGED clock
       ELSE /\ th' = [th EXCEPT ![t] = [@ EXCEPT !.pc = "h_append", !.input = u,
                                                 !.role = "user", !.content = u.s,
                                                 !.ts = clock + 1, !.ref = cur]]
            /\ clock' = clock + 1
    /\ UNCHANGED <<ConcFrame, conversation_history, appended, heap, cur>>

\* add_to_history: list.append on the list read
T_Append(t) ==
    /\ Frame(t).pc = "h_append"
    /\ LET f == Frame(t)
           turn == Turn(f.role, f.content, f.ts)
       IN  /\ heap' = [heap EXCEPT ![f.ref] = Append(@, turn)]
           /\ appended' = Append(appended, turn)
    /\ conversation_history' = heap'[cur]
    /\ th' = [th EXCEPT ![t] = [@ EXCEPT !.pc = "h_len_load"]]
    /\ UNCHANGED <<ConcFrame, clock, cur>>

\* add_to_history: read the attribute for len()
T_LenLoad(t) ==
    /\ Frame(t).pc = "h_len_load"
    /\ th' = [th EXCEPT ![t] = [@ EXCEPT !.pc = "h_len", !.ref = cur]]
    /\ UNCHANGED <<ConcFrame, conversation_history, clock, appended, heap, cur>>

\* add_to_history: if len(...) > 20
T_LenTest(t) ==
    /\ Frame(t).pc = "h_len"
    /\ th' = [th EXCEPT ![t] = [@ EXCEPT !.pc =
                IF Len(heap[Frame(t).ref]) > MaxHistory
                THEN "h_slice_load" ELSE AfterHistory(Frame(t))]]
    /\ UNCHANGED <<ConcFrame, conversation_history, clock, appended, heap, cur>>

\* add_to_history: read the attribute for the slice
T_SliceLoad(t) ==
    /\ Frame(t).pc = "h_slice_load"
    /\ th' = [th EXCEPT ![t] = [@ EXCEPT !.pc = "h_slice", !.ref = cur]]
    /\ UNCHANGED <<ConcFrame, conversation_history, clock, appended, heap, cur>>

\* add_to_history: [-20:] builds a new list
T_Slice(t) ==
    /\ Frame(t).pc = "h_slice"
    /\ th' = [th EXCEPT ![t] = [@ EXCEPT !.pc = "h_store",
                                         !.tmp = LastN(MaxHistory, heap[Frame(t).ref])]]
    /\ UNCHANGED <<ConcFrame, conversation_history, clock, appended, heap, cur>>

\* add_to_history: rebind the attribute to the new list
T_Store(t) ==
    /\ Frame(t).pc = "h_store"
    /\ heap' = Append(heap, Frame(t).tmp)
    /\ cur' = Len(heap) + 1
    /\ conversation_history' = Frame(t).tmp
    /\ th' = [th EXCEPT ![t] = [@ EXCEPT !.pc = AfterHistory(Frame(t)), !.tmp = <<>>]]
    /\ UNCHANGED <<ConcFrame, clock, appended>>

\* get_conversation_context: read the attribute for the emptiness test
T_ContextLoad(t) ==
    /\ Frame(t).pc = "g_load"
    /\ th' = [th EXCEPT ![t] = [@ EXCEPT !.ref = cur, !.pc =
                IF cls = "MultiAIAgent" /\ provider = "qwen" /\ client.kind = "None"
                THEN "g_call" ELSE "g_test"]]
    /\ UNCHANGED <<ConcFrame, conversation_history, clock, appended, heap, cur>>

\* get_conversation_context: if not self.conversation_history
T_ContextTest(t) ==
    /\ Frame(t).pc = "g_test"
    /\ th' = [th EXCEPT ![t] = [@ EXCEPT !.pc =
                IF heap[Frame(t).ref] = <<>> THEN "g_call" ELSE "g_slice_load"]]
    /\ UNCHANGED <<ConcFrame, conversation_history, clock, appended, heap, cur>>

\* get_conversation_context: read the attribute for [-10:]
T_ContextSliceLoad(t) ==
    /\ Frame(t).pc = "g_slice_load"
    /\ th' = [th EXCEPT ![t] = [@ EXCEPT !.pc = "g_slice", !.ref = cur]]
    /\ UNCHANGED <<ConcFrame, conversation_history, clock, appended, heap, cur>>

\* get_conversation_context: the turns rendered into the context
T_ContextSlice(t) ==
    /\ Frame(t).pc = "g_slice"
    /\ th' = [th EXCEPT ![t] = [@ EXCEPT !.pc = "g_call",
                                         !.ctx = LastN(ContextTurns, heap[Frame(t).ref])]]
    /\ UNCHANGED <<ConcFrame, conversation_history, clock, appended, heap, cur>>

\* the provider call ends in outcome o; the reply is sanitized; then
\* add_to_history("assistant", ...) reads the time and the attribute, or the
\* except clause of process_request returns the apology
T_ProviderCall(t, o) ==
    /\ Frame(t).pc = "g_call"
    /\ LET gen == GenerateResponse(cls, provider, client, o)
           san == SanitizeResponse(gen.value)
       IN  IF gen.raised \/ san.raised
           THEN /\ th' = [th EXCEPT ![t] = [@ EXCEPT !.pc = "done", !.outcome = o,
                              !.result = ApologyPrefix \o
                                  (IF gen.raised THEN gen.value.s ELSE san.value)]]
                /\ UNCHANGED clock
           ELSE /\ th' = [th EXCEPT ![t] = [@ EXCEPT !.pc = "h_append", !.outcome = o,
                              !.role = "assistant", !.content = san.value,
                              !.ts = clock + 1, !.ref = cur]]
                /\ clock' = clock + 1
    /\ UNCHANGED <<ConcFrame, conversation_history, appended, heap, cur>>

\* return response
T_Return(t) ==
    /\ Frame(t).pc = "return"
    /\ th' = [th EXCEPT ![t] = [@ EXCEPT !.pc = "done", !.result = Frame(t).content]]
    /\ UNCHANGED <<ConcFrame, conversation_history, clock, appended, heap, cur>>

NextConc ==
    \E t \in Threads :
        \/ \E u \in ConcInputs : T_Begin(t, u)
        \/ T_Append(t)
        \/ T_LenLoad(t)
        \/ T_LenTest(t)
        \/ T_SliceLoad(t)
        \/ T_Slice(t)
        \/ T_Store(t)
        \/ T_ContextLoad(t)
        \/ T_ContextTest(t)
        \/ T_ContextSliceLoad(t)
        \/ T_ContextSlice(t)
        \/ \E o \in ConcOutcomes : T_ProviderCall(t, o)
        \/ T_Return(t)

SpecConc == InitConc /\ [][NextConc]_vars

----------------------------------------------------------------------------
(* The helper functions on their own *)

Alphabet == {"a", " ", "\n"}

RECURSIVE TextsOfLen(_)
TextsOfLen(n) ==
    IF n = 0 THEN {""} ELSE {c \o t : c \in Alphabet, t \in TextsOfLen(n - 1)}

Texts == UNION {TextsOfLen(n) : n \in 0..MaxLen}

SanitizeInputs == {Str(t) : t \in Texts} \cup {None}

ValidateInputs ==
    {Str(t) : t \in Texts} \cup
    {None, Str(Rep("x", DefaultMaxLength)), Str(Rep("x", DefaultMaxLength + 1)),
     Str(" " \o Rep("x", DefaultMaxLength - 1)), Str(Rep("x", DefaultMaxLength) \o " ")}

MaxLengths == {2, DefaultMaxLength}

InitPure ==
    /\ env = DefaultEnv
    /\ installed = Packages
    /\ constructed = FALSE
    /\ cls = NoAttr /\ agent_type = NoAttr /\ provider = NoAttr
    /\ config = NoConfig /\ client = NoClient
    /\ conversation_history = <<>> /\ clock = 0 /\ appended = <<>>
    /\ last = Call("init", None)
    /\ steps = 0
    /\ tempfiles = {} /\ spawned = 0
    /\ default_provider = NoAttr /\ agents = Idle
    /\ chat_history = Idle /\ current_agent = NoAttr
    /\ disk = {} /\ thin = {}
    /\ heap = <<>> /\ cur = 0 /\ th = Idle

PureFrame == <<env, installed, diskVars, toolVars, uiVars, agentVars, conversation_history, clock, appended,
               steps, concVars>>

\* sanitize_response(r)
SanitizeResponseCall(r) ==
    /\ LET s == SanitizeResponse(r)
       IN  last' = [Call("sanitize_response", r) EXCEPT
                        !.raised = s.raised, !.value = s.value]
    /\ UNCHANGED PureFrame

\* validate_agent_input(u, n), or validate_agent_input(u) for n = 2000
ValidateAgentInputCall(u, n) ==
    /\ last' = [Call("validate_agent_input", u) EXCEPT
                    !.ok = ValidateAgentInput(u, n), !.limit = n]
    /\ UNCHANGED PureFrame

NextPure ==
    \/ \E r \in SanitizeInputs : SanitizeResponseCall(r)
    \/ \E u \in ValidateInputs, n \in MaxLengths : ValidateAgentInputCall(u, n)

SpecPure == InitPure /\ [][NextPure]_vars
----------------------------------------------------------------------------
(* utils/code_generator.py: CodeGenerator.validate_code *)

Languages == {"python", "go", "yaml", "shell", "markdown"}

\* what the toolchain does when asked: exits 0, exits non-zero, runs past the
\* timeout, or is not installed. For yaml the "toolchain" is the yaml module:
\* it loads the text, rejects it, or cannot be imported.
ToolOutcomes == {"exit0", "exit1", "timeout", "missing"}

ToolOutcomesFor(language) ==
    IF language \in {"python", "go", "shell"} THEN ToolOutcomes
    ELSE IF language = "yaml" THEN {"exit0", "exit1", "missing"}
    ELSE {"exit0"}

\* texts whose compile(code, '<string>', 'exec') raises SyntaxError
Malformed == {"x = ("}

NotStrMsg == "write() argument must be str, not None"
CompileNoneMsg == "compile() arg 1 must be a string, bytes or AST object"
NotIterableMsg == "argument of type 'NoneType' is not iterable"
TimeoutMsg == "Command timed out after 10 seconds"
NotFoundMsg == "[Errno 2] No such file or directory"
StderrText == "stderr of the toolchain"

\* the outcome of one validator: verdict, message, temporary files created
\* and unlinked, subprocesses run
Verdict(ok, message, files, unlinked, runs) ==
    [raised |-> FALSE, ok |-> ok, message |-> message,
     files |-> files, unlinked |-> unlinked, runs |-> runs]

\* the part shared by the python, go and shell validators:
\* NamedTemporaryFile(delete=False) and f.write(code), then subprocess.run
\* inside try/finally os.unlink. A write that raises leaves the with block
\* before the try is entered.
TempFileCheck(code, tool, label, okMsg) ==
    IF code.kind # "str"
    THEN Verdict(FALSE, label \o NotStrMsg, 1, 0, 0)
    ELSE CASE tool = "exit0" -> Verdict(TRUE, okMsg, 1, 1, 1)
           [] tool = "exit1" -> Verdict(FALSE, StderrText, 1, 1, 1)
           [] tool = "timeout" -> Verdict(FALSE, label \o TimeoutMsg, 1, 1, 1)
           [] OTHER -> Verdict(FALSE, label \o NotFoundMsg, 1, 1, 1)

\* CodeGenerator._validate_python_code
ValidatePythonCode(code, tool) ==
    IF code.kind # "str"
    THEN Verdict(FALSE, "Python validation error: " \o CompileNoneMsg, 0, 0, 0)
    ELSE IF code.s \in Malformed
    THEN Verdict(FALSE, "Python syntax error: invalid syntax", 0, 0, 0)
    ELSE TempFileCheck(code, tool, "Python validation error: ", "Python syntax is correct")

\* CodeGenerator._validate_go_code
ValidateGoCode(code, tool) ==
    TempFileCheck(code, tool, "Go validation error: ", "Go code compiles")

\* CodeGenerator._validate_shell_code
ValidateShellCode(code, tool) ==
    TempFileCheck(code, tool, "Shell validation error: ", "Shell script syntax is correct")

\* CodeGenerator._validate_yaml_code
ValidateYamlCode(code, tool) ==
    IF tool = "missing" THEN Verdict(TRUE, "YAML validation needs PyYAML", 0, 0, 0)
    ELSE IF code.kind = "str" /\ tool = "exit0"
    THEN Verdict(TRUE, "YAML format is correct", 0, 0, 0)
    ELSE Verdict(FALSE, "YAML format error: cannot load", 0, 0, 0)

\* the code fence of Markdown, three backquotes, written with tildes here
Fence == "~~~"

\* CodeGenerator._validate_markdown
ValidateMarkdown(code) ==
    IF code.kind # "str"
    THEN Verdict(FALSE, "Markdown validation error: " \o NotIterableMsg, 0, 0, 0)
    ELSE IF ~Contains(code.s, "#")
    THEN Verdict(FALSE, "Markdown document has no headings", 0, 0, 0)
    ELSE LET fences == SelectSeq(SplitLines(code.s),
                                 LAMBDA l : StartsWith(Strip(l), Fence))
         IN  IF Len(fences) \div 2 = 0
             THEN Verdict(TRUE, "Markdown format is correct (consider adding code blocks)",
                          0, 0, 0)
             ELSE Verdict(TRUE, "Markdown format is correct", 0, 0, 0)

NotImplementedMsg == "Language validation not implemented"

\* validate_code that rejects a language tag it does not know
ValidateCodeOn_UnknownRejected(code, language, tool) ==
    CASE language = "python" -> ValidatePythonCode(code, tool)
      [] language = "go" -> ValidateGoCode(code, tool)
      [] language = "yaml" -> ValidateYamlCode(code, tool)
      [] language = "shell" -> ValidateShellCode(code, tool)
      [] language = "markdown" -> ValidateMarkdown(code)
      [] OTHER -> Verdict(FALSE, NotImplementedMsg, 0, 0, 0)

\* CodeGenerator.validate_code(code, language), the toolchain behaving as tool
ValidateCodeOn(code, language, tool) ==
    CASE language = "python" -> ValidatePythonCode(code, tool)
      [] language = "go" -> ValidateGoCode(code, tool)
      [] language = "yaml" -> ValidateYamlCode(code, tool)
      [] language = "shell" -> ValidateShellCode(code, tool)
      [] language = "markdown" -> ValidateMarkdown(code)
      [] OTHER -> Verdict(TRUE, NotImplementedMsg, 0, 0, 0)

CodeInputs == {None, Str(""), Str("x = 1"), Str("x = ("), Str("# t\n~~~\nx\n~~~")}
LanguageTags == Languages \cup {"rust"}

\* an OperationsAgent() exists; nothing has been validated yet
InitGen ==
    /\ env = DefaultEnv
    /\ installed = Packages
    /\ constructed = TRUE
    /\ cls = "OpenAIAgent"
    /\ agent_type = "operations"
    /\ LET a == AgentInit(cls, agent_type, "openai")
       IN  provider = a.provider /\ config = a.config /\ client = a.client
    /\ conversation_history = <<>> /\ clock = 0 /\ appended = <<>>
    /\ last = Call("init", None)
    /\ steps = 0
    /\ tempfiles = {} /\ spawned = 0
    /\ default_provider = NoAttr /\ agents = Idle
    /\ chat_history = Idle /\ current_agent = NoAttr
    /\ disk = {} /\ thin = {}
    /\ heap = <<>> /\ cur = 0 /\ th = Idle

\* the effect of one validation on the disk and on the process table
Validated(op, code, language, tool) ==
    /\ steps < MaxSteps
    /\ tool \in ToolOutcomesFor(language)
    /\ LET v == ValidateCodeOn(code, language, tool)
       IN  /\ last' = [Call(op, code) EXCEPT
                          !.language = language, !.raised = v.raised, !.ok = v.ok,
                          !.value = v.message, !.files = v.files,
                          !.unlinked = v.unlinked, !.runs = v.runs]
           /\ tempfiles' = IF v.files > v.unlinked
                           THEN tempfiles \cup {steps + 1} ELSE tempfiles
           /\ spawned' = spawned + v.runs
    /\ steps' = steps + 1
    /\ UNCHANGED <<env, installed, diskVars, uiVars, agentVars, conversation_history, clock,
                   appended, concVars>>

\* code_generator.validate_code(code, language)
ValidateCode(code, language, tool) == Validated("validate_code", code, language, tool)

\* OperationsAgent.validate_shell_script(script)
ValidateShellScript(script, tool) ==
    Validated("validate_shell_script", script, "shell", tool)

NextGen ==
    \/ \E code \in CodeInputs, language \in LanguageTags, tool \in ToolOutcomes :
          ValidateCode(code, language, tool)
    \/ \E script \in CodeInputs, tool \in ToolOutcomes : ValidateShellScript(script, tool)

SpecGen == InitGen /\ [][NextGen]_vars

----------------------------------------------------------------------------
(* app.py: the web page                                                    *)
(*                                                                         *)
(* Streamlit runs the script from the top for every widget event, and      *)
(* again after st.rerun(): main() builds a new StreamlitInterface, whose   *)
(* __init__ builds new agents. Only st.session_state (current_agent,       *)
(* chat_history) outlives a run. The state between two events is the state *)
(* the last run left.                                                      *)

Personas == {"operations", "go", "monitoring", "ansible"}

\* GoAgent and MonitoringAgent derive from MultiAIAgent and take a provider;
\* OperationsAgent and AnsibleAgent derive from OpenAIAgent and take nothing
PersonaBase(a) == IF a \in {"go", "monitoring"} THEN "MultiAIAgent" ELSE "OpenAIAgent"
TooManyArgsMsg == "__init__() takes 1 positional argument but 2 were given"

\* the persona's class called with one positional argument p
PersonaNew(a, p) ==
    IF PersonaBase(a) = "MultiAIAgent" THEN MultiInit(a, p)
    ELSE [raised |-> TRUE, error |-> "TypeError", value |-> TooManyArgsMsg,
          provider |-> NoAttr, config |-> NoConfig, client |-> NoClient, created |-> 0]

AgentObject(a, init) ==
    [class |-> PersonaBase(a), agent_type |-> a, provider |-> init.provider,
     config |-> init.config, client |-> init.client, history |-> <<>>]

\* StreamlitInterface._initialize_agents: each persona with the default
\* provider, then with "openai", and left out when both attempts raise
InitializeAgents(dp) ==
    LET first(a) == PersonaNew(a, dp)
        second(a) == PersonaNew(a, "openai")
        built == {a \in Personas : ~first(a).raised \/ ~second(a).raised}
    IN  [a \in built |->
            AgentObject(a, IF ~first(a).raised THEN first(a) ELSE second(a))]

\* render_sidebar raises KeyError when the selected persona has no agent; the
\* page then shows the error and render_chat_interface does not run.
\* Otherwise render_chat_interface gives the selected persona a transcript.
Render(ags, chats, sel) ==
    IF sel \notin DOMAIN ags \/ sel \in DOMAIN chats THEN chats
    ELSE [a \in DOMAIN chats \cup {sel} |-> IF a = sel THEN <<>> ELSE chats[a]]

\* the clear button that wipes every transcript
ClearChatOn_ClearsAllTranscripts(ags, chats, sel) ==
    [agents |-> [ags EXCEPT ![sel].history = <<>>],
     chat_history |-> [a \in DOMAIN chats \cup {sel} |-> <<>>]]

\* the clear button's handler: clear_history on the selected agent, and an
\* empty transcript for the selected persona
ClearChatOn(ags, chats, sel) ==
    [agents |-> [ags EXCEPT ![sel].history = <<>>],
     chat_history |-> [a \in DOMAIN chats \cup {sel} |->
                          IF a = sel THEN <<>> ELSE chats[a]]]

ChatInputs == {Str("hi"), Str(" ")}
ChatOutcomes == {Reply(Str("ok")), Raise("boom")}

UIFrame == <<env, installed, diskVars, toolVars, agentVars, conversation_history, appended,
             concVars, default_provider>>

\* the page after the first run of the script
InitUI ==
    /\ env = DefaultEnv
    /\ installed \in {Packages, Packages \ {"anthropic"}}
    /\ constructed = FALSE
    /\ cls = NoAttr /\ agent_type = NoAttr /\ provider = NoAttr
    /\ config = NoConfig /\ client = NoClient
    /\ conversation_history = <<>> /\ clock = 0 /\ appended = <<>>
    /\ last = Call("init", None)
    /\ steps = 0
    /\ tempfiles = {} /\ spawned = 0
    /\ heap = <<>> /\ cur = 0 /\ th = Idle
    /\ default_provider \in ProviderNames
    /\ agents = InitializeAgents(default_provider)
    /\ current_agent = "operations"
    /\ chat_history = Render(agents, Idle, current_agent)
    /\ disk = {} /\ thin = {}

\* a persona button of the sidebar: shown only for personas that have an
\* agent; the handler stores the selection and calls st.rerun()
SelectAgent(a) ==
    /\ steps < MaxClicks
    /\ a \in DOMAIN agents
    /\ current_agent' = a
    /\ agents' = InitializeAgents(default_provider)
    /\ chat_history' = Render(agents', chat_history, a)
    /\ last' = Call("select_agent", Str(a))
    /\ steps' = steps + 1
    /\ UNCHANGED <<UIFrame, clock>>

\* the clear button: the run rebuilds the agents, the handler clears, and
\* st.rerun() starts the next run
ClearChat ==
    /\ steps < MaxClicks
    /\ current_agent \in DOMAIN agents
    /\ LET fresh == InitializeAgents(default_provider)
           done == ClearChatOn(fresh, chat_history, current_agent)
       IN  /\ agents' = InitializeAgents(default_provider)
           /\ chat_history' = Render(agents', done.chat_history, current_agent)
    /\ last' = [Call("clear_chat", Str(current_agent)) EXCEPT
                    !.turns = agents[current_agent].history,
                    !.seen = IF current_agent \in DOMAIN chat_history
                             THEN chat_history[current_agent] ELSE <<>>]
    /\ steps' = steps + 1
    /\ UNCHANGED <<UIFrame, clock, current_agent>>

\* the switch button, offered when the provider picked in the select box
\* differs from the selected agent's: a successful switch calls st.rerun(),
\* a failed one shows the error and the run goes on
SwitchProviderClick(new) ==
    /\ steps < MaxClicks
    /\ current_agent \in DOMAIN agents
    /\ LET fresh == InitializeAgents(default_provider)
           ag == fresh[current_agent]
           sw == SwitchProviderOn(ag.agent_type, ag.provider, ag.config, ag.client,
                                  ag.history, new)
       IN  /\ ag.class = "MultiAIAgent"
           /\ new \in Providers
           /\ new # ag.provider
           /\ agents' = IF sw.raised
                        THEN [fresh EXCEPT ![current_agent].provider = sw.provider,
                                           ![current_agent].config = sw.config,
                                           ![current_agent].client = sw.client]
                        ELSE InitializeAgents(default_provider)
           /\ last' = [Call("switch_provider_click", Str(new)) EXCEPT
                           !.raised = sw.raised, !.error = sw.error, !.value = sw.value]
    /\ chat_history' = Render(agents', chat_history, current_agent)
    /\ steps' = steps + 1
    /\ UNCHANGED <<UIFrame, clock, current_agent>>

\* a message typed into the chat box: the run rebuilds the agents, appends
\* the message to the transcript, asks the selected agent, and appends the
\* answer to the transcript
Chat(u, o) ==
    /\ steps < MaxClicks
    /\ current_agent \in DOMAIN agents
    /\ LET fresh == InitializeAgents(default_provider)
           ag == fresh[current_agent]
           chats == Render(fresh, chat_history, current_agent)
           r == ProcessRequestOn(ag.class, ag.provider, ag.client, ag.history,
                                 clock + 1, u, o)
       IN  /\ agents' = [fresh EXCEPT ![current_agent].history = r.history]
           /\ chat_history' =
                 [chats EXCEPT ![current_agent] =
                     @ \o <<Turn("user", u.s, clock + 1),
                            Turn("assistant", r.value, r.clock + 1)>>]
           /\ clock' = r.clock + 1
           /\ last' = [Call("chat", u) EXCEPT
                           !.outcome = o, !.value = r.value, !.calls = r.calls,
                           !.turns = r.turns, !.seen = r.seen, !.caught = r.caught]
    /\ steps' = steps + 1
    /\ UNCHANGED <<UIFrame, current_agent>>

NextUI ==
    \/ \E a \in Personas : SelectAgent(a)
    \/ ClearChat
    \/ \E new \in Providers : SwitchProviderClick(new)
    \/ \E u \in ChatInputs, o \in ChatOutcomes : Chat(u, o)

SpecUI == InitUI /\ [][NextUI]_vars
----------------------------------------------------------------------------
(* check_system.py, simple_config_check.py and the status map of app.py *)

UpperCase == "ABCDEFGHIJKLMNOPQRSTUVWXYZ"
LowerCase == "abcdefghijklmnopqrstuvwxyz"

\* str.lower()
RECURSIVE Lower(_)
Lower(s) ==
    IF s = "" THEN ""
    ELSE LET c == CharAt(s, 1)
             at == {i \in 1..Len(UpperCase) : CharAt(UpperCase, i) = c}
         IN  (IF at = {} THEN c ELSE CharAt(LowerCase, CHOOSE i \in at : TRUE))
             \o Lower(SubSeq(s, 2, Len(s)))

StructureChecks ==
    {"app.py", "requirements.txt", ".env", "agents/__init__.py", "agents/base_agent.py",
     "agents/multi_ai_agent.py", "agents/operations_agent.py", "agents/go_agent.py",
     "agents/monitoring_agent.py", "agents/ansible_agent.py", "config/__init__.py",
     "config/settings.py", "utils/__init__.py", "utils/helpers.py",
     "utils/code_generator.py", "tests/", "tests/test_agents.py", "tests/test_demos.py",
     "tests/test_api_integration.py", "tests/test_code_generation.py",
     "tests/test_error_handling.py", "tests/simple_tests.py", "run_tests.py"}

TestFiles ==
    {"tests/test_agents.py", "tests/test_demos.py", "tests/test_api_integration.py",
     "tests/test_code_generation.py", "tests/test_error_handling.py",
     "tests/simple_tests.py"}

Dependencies ==
    {"streamlit", "openai", "anthropic", "dashscope", "dotenv", "pydantic",
     "pydantic_settings", "yaml", "pytest"}

CheckedEnvVars ==
    {"OPENAI_API_KEY", "OPENAI_BASE_URL", "OPENAI_MODEL", "CLAUDE_API_KEY", "QWEN_API_KEY"}

\* check_environment_var(var_name, description)
CheckEnvironmentVar(var_name) ==
    LET value == Getenv(var_name, "")
    IN  value # "" /\ value # "your_" \o Lower(var_name)

\* check_system_structure(): passed == total
CheckSystemStructure == \A path \in StructureChecks : path \in disk

\* check_dependencies(): passed >= total * 0.8
CheckDependencies ==
    LET passed == Cardinality({m \in Dependencies : m \in installed})
        total == Cardinality(Dependencies)
    IN  10 * passed >= 8 * total

\* check_environment(): passed >= 2
CheckEnvironment == Cardinality({v \in CheckedEnvVars : CheckEnvironmentVar(v)}) >= 2

\* check_test_files(): every file exists and holds more than 100 characters
CheckTestFiles == \A f \in TestFiles : f \in disk /\ f \notin thin

\* generate_system_report(): passed_checks >= total_checks * 0.75
GenerateSystemReport(checks) ==
    4 * Cardinality({k \in DOMAIN checks : checks[k]}) >= 3 * Cardinality(DOMAIN checks)

SystemChecks ==
    [structure |-> CheckSystemStructure, dependencies |-> CheckDependencies,
     environment |-> CheckEnvironment, test_files |-> CheckTestFiles]

NotConfiguredText == "not configured"

\* StreamlitInterface._check_api_status
CheckApiStatus ==
    LET openai_key == Getenv("OPENAI_API_KEY", "")
        base_url == Getenv("OPENAI_BASE_URL", "https://api.openai.com/v1")
        claude_key == Getenv("ANTHROPIC_AUTH_TOKEN", "")
        qwen_key == Getenv("QWEN_API_KEY", "")
    IN  [openai |-> IF openai_key # "" /\ openai_key # "your_openai_api_key_here"
                    THEN IF Contains(base_url, "bigmodel.cn")
                         THEN "Zhipu AI configured" ELSE "OpenAI configured"
                    ELSE NotConfiguredText,
         claude |-> IF claude_key # "" /\ claude_key # "your_claude_api_key_here"
                    THEN "Claude configured" ELSE NotConfiguredText,
         qwen |-> IF qwen_key # "" /\ qwen_key # "your_qwen_api_key_here"
                  THEN "Qwen configured" ELSE NotConfiguredText]

\* check_zhipuai_config()
CheckZhipuaiConfig ==
    LET openai_key == Getenv("OPENAI_API_KEY", "")
        base_url == Getenv("OPENAI_BASE_URL", "")
    IN  /\ Contains(base_url, "bigmodel.cn")
        /\ Len(openai_key) > 10
        /\ openai_key # "your_openai_api_key_here"
SysEnvNames == CheckedEnvVars \cup {"ANTHROPIC_AUTH_TOKEN"}

\* the entry .env.example gives a variable: your_<name>_here
Placeholder(var_name) == "your_" \o Lower(var_name) \o "_here"

SysEnvChoices ==
    {[n \in SysEnvNames |->
        IF n = "OPENAI_API_KEY" THEN ok
        ELSE IF n = "OPENAI_BASE_URL" THEN url
        ELSE IF n = "OPENAI_MODEL" THEN mdl
        ELSE IF n = "CLAUDE_API_KEY" THEN ck
        ELSE IF n = "QWEN_API_KEY" THEN qk
        ELSE tok] :
     ok \in {None, Str(""), Str(Placeholder("OPENAI_API_KEY")), Str(VendorKey)},
     url \in {None, Str(VendorBaseUrl)},
     mdl \in {None, Str("glm-4")},
     ck \in {None, Str("sk-ant-key")},
     qk \in {None, Str(Placeholder("QWEN_API_KEY")), Str("qwen-key-0123")},
     tok \in {None, Str("sk-ant-key")}}

SysInstalledChoices ==
    {Dependencies, Dependencies \ {"pytest"}, Dependencies \ {"pytest", "anthropic"}}

DiskChoices == {StructureChecks, StructureChecks \ {".env"}}

ThinChoices == {{}, {"tests/test_demos.py"}}

InitSys ==
    /\ env \in SysEnvChoices
    /\ installed \in SysInstalledChoices
    /\ disk \in DiskChoices
    /\ thin \in ThinChoices
    /\ constructed = TRUE
    /\ cls = "MultiAIAgent"
    /\ agent_type = "operations"
    /\ LET a == AgentInit(cls, agent_type, "openai")
       IN  provider = a.provider /\ config = a.config /\ client = a.client
    /\ conversation_history = <<>> /\ clock = 0 /\ appended = <<>>
    /\ last = Call("init", None)
    /\ steps = 0
    /\ tempfiles = {} /\ spawned = 0
    /\ default_provider = NoAttr /\ agents = Idle
    /\ chat_history = Idle /\ current_agent = NoAttr
    /\ heap = <<>> /\ cur = 0 /\ th = Idle

SysFrame ==
    /\ steps' = steps + 1
    /\ UNCHANGED <<env, installed, diskVars, toolVars, uiVars, agentVars,
                   conversation_history, clock, appended, concVars>>

\* python check_system.py: the checks, then sys.exit(0 if success else 1)
RunCheckSystem ==
    /\ steps < MaxSteps
    /\ last' = [Call("check_system", None) EXCEPT
                    !.ok = GenerateSystemReport(SystemChecks),
                    !.value = IF GenerateSystemReport(SystemChecks) THEN "0" ELSE "1",
                    !.report = [checks |-> SystemChecks,
                                configured |->
                                    {v \in CheckedEnvVars : CheckEnvironmentVar(v)}]]
    /\ SysFrame

\* the sidebar's API status
CheckApiStatusCall ==
    /\ steps < MaxSteps
    /\ last' = [Call("check_api_status", None) EXCEPT !.report = CheckApiStatus]
    /\ SysFrame

\* python simple_config_check.py
CheckZhipuaiConfigCall ==
    /\ steps < MaxSteps
    /\ last' = [Call("check_zhipuai_config", None) EXCEPT !.ok = CheckZhipuaiConfig]
    /\ SysFrame

NextSys ==
    \/ RunCheckSystem
    \/ CheckApiStatusCall
    \/ CheckZhipuaiConfigCall
    \/ \E new \in Providers : SwitchProvider(new)
    \/ ValidateProviderConfigCall

SpecSys == InitSys /\ [][NextSys]_vars
----------------------------------------------------------------------------
(* agents/ansible_agent.py: the inventory and its validation *)

\* AnsibleAgent.generate_inventory_file(environment)
GenerateInventoryFile(environment) ==
    JoinLines(<<
        "# Ansible inventory file - " \o environment \o " environment",
        "",
        "# web servers",
        "[webservers]",
        "web01.example.com ansible_user=ubuntu ansible_port=22",
        "web02.example.com ansible_user=ubuntu ansible_port=22",
        "",
        "# database servers",
        "[databases]",
        "db01.example.com ansible_user=centos ansible_port=22",
        "db02.example.com ansible_user=centos ansible_port=22",
        "",
        "# application servers",
        "[appservers]",
        "app01.example.com ansible_user=ubuntu ansible_port=22",
        "app02.example.com ansible_user=ubuntu ansible_port=22",
        "",
        "# monitoring servers",
        "[monitoring]",
        "mon01.example.com ansible_user=centos ansible_port=22",
        "",
        "# load balancers",
        "[loadbalancers]",
        "lb01.example.com ansible_user=ubuntu ansible_port=22",
        "",
        "# group variables",
        "[webservers:vars]",
        "ansible_python_interpreter=/usr/bin/python3",
        "nginx_version=1.18.0",
        "",
        "[databases:vars]",
        "ansible_python_interpreter=/usr/bin/python3",
        "mysql_version=8.0",
        "",
        "[appservers:vars]",
        "ansible_python_interpreter=/usr/bin/python3",
        "java_version=11",
        "",
        "# environment",
        "[" \o environment \o ":children]",
        "webservers",
        "databases",
        "appservers",
        "monitoring",
        "loadbalancers",
        "",
        "[" \o environment \o ":vars]",
        "env=" \o environment,
        "ansible_ssh_common_args='-o StrictHostKeyChecking=no'",
        "">>)

InventoryOkMsg == "Inventory file format is correct"
InventoryErrorMsg(line) == "Inventory file format error: " \o line
NoStripOnNoneMsg == "'NoneType' object has no attribute 'strip'"

\* the first stripped line that is neither empty, a comment nor a section
\* header and has no '=' ; <<>> when there is none
RECURSIVE FirstBadLine(_)
FirstBadLine(lines) ==
    IF lines = <<>> THEN <<>>
    ELSE LET line == Strip(Head(lines))
         IN  IF /\ line # "" /\ ~StartsWith(line, "#") /\ ~StartsWith(line, "[")
                /\ ~Contains(line, "=")
             THEN <<line>>
             ELSE FirstBadLine(Tail(lines))

\* AnsibleAgent.validate_ansible_code(code, code_type): [raised, ok, message]
ValidateAnsibleCode(code, code_type, tool) ==
    IF code_type = "yaml"
    THEN LET v == ValidateCodeOn(code, "yaml", tool)
         IN  [raised |-> v.raised, ok |-> v.ok, message |-> v.message]
    ELSE IF code_type = "ini"
    THEN IF code.kind # "str"
         THEN [raised |-> TRUE, ok |-> FALSE, message |-> NoStripOnNoneMsg]
         ELSE LET bad == FirstBadLine(SplitLines(Strip(code.s)))
              IN  IF bad # <<>>
                  THEN [raised |-> FALSE, ok |-> FALSE,
                        message |-> InventoryErrorMsg(bad[1])]
                  ELSE [raised |-> FALSE, ok |-> TRUE, message |-> InventoryOkMsg]
    ELSE [raised |-> FALSE, ok |-> TRUE, message |-> NotImplementedMsg]

Environments == {"production", "staging", "test", "dev", ""}

AnsibleCodes ==
    {Str(GenerateInventoryFile(e)) : e \in Environments}
    \cup {None, Str(""), Str("[web]\nhost1 ansible_user=root\n"), Str("[web]\nhost1\n"),
          Str("# note\n\n  key = value  ")}

CodeTypes == {"yaml", "ini", "json"}

\* an AnsibleAgent() exists
InitAnsible ==
    /\ env = DefaultEnv
    /\ installed = Packages
    /\ constructed = TRUE
    /\ cls = "OpenAIAgent"
    /\ agent_type = "ansible"
    /\ LET a == AgentInit(cls, agent_type, "openai")
       IN  provider = a.provider /\ config = a.config /\ client = a.client
    /\ conversation_history = <<>> /\ clock = 0 /\ appended = <<>>
    /\ last = Call("init", None)
    /\ steps = 0
    /\ tempfiles = {} /\ spawned = 0
    /\ default_provider = NoAttr /\ agents = Idle
    /\ chat_history = Idle /\ current_agent = NoAttr
    /\ disk = {} /\ thin = {}
    /\ heap = <<>> /\ cur = 0 /\ th = Idle

AnsibleFrame ==
    /\ steps' = steps + 1
    /\ UNCHANGED <<env, installed, diskVars, toolVars, uiVars, agentVars,
                   conversation_history, clock, appended, concVars>>

\* agent.generate_inventory_file(environment)
GenerateInventoryFileCall(environment) ==
    /\ steps < MaxSteps
    /\ last' = [Call("generate_inventory_file", Str(environment)) EXCEPT
                    !.value = GenerateInventoryFile(environment)]
    /\ AnsibleFrame

\* agent.validate_ansible_code(code, code_type)
ValidateAnsibleCodeCall(code, code_type, tool) ==
    /\ steps < MaxSteps
    /\ tool \in ToolOutcomesFor(code_type)
    /\ LET v == ValidateAnsibleCode(code, code_type, tool)
       IN  last' = [Call("validate_ansible_code", code) EXCEPT
                        !.language = code_type, !.raised = v.raised, !.ok = v.ok,
                        !.value = v.message]
    /\ AnsibleFrame

NextAnsible ==
    \/ \E e \in Environments : GenerateInventoryFileCall(e)
    \/ \E code \in AnsibleCodes, t \in CodeTypes, tool \in ToolOutcomes :
           ValidateAnsibleCodeCall(code, t, tool)

SpecAnsible == InitAnsible /\ [][NextAnsible]_vars
----------------------------------------------------------------------------
(* Properties of the sequential agent *)

IsCall(op) == last'.op = op /\ steps' = steps + 1

\* an input as the claims describe a rejected one: absent, empty,
\* whitespace-only, or longer than 2000 characters
Blank(s) == \A i \in 1..Len(s) : CharAt(s, i) \in Whitespace
Rejected(u) == u.kind = "none" \/ Len(u.s) > 2000 \/ Blank(u.s)

\* C1: after any sequence of add_to_history, process_request and clear_history
\* calls the history holds at most 20 turns, and they are exactly the most
\* recently appended ones, in the order they were appended.
C1_HistoryIsMostRecent ==
    /\ Len(conversation_history) <= 20
    /\ conversation_history = LastN(20, appended)

\* 25 turns were appended and turns 6..25 remain
C1_Witness ==
    /\ Len(appended) = 25
    /\ conversation_history = SubSeq(appended, 6, 25)
    /\ conversation_history[1] # appended[1]

\* C2: when the provider call of a multi-provider agent raises an exception
\* with message M, process_request on valid input returns a string containing
\* the apology term and M, and no assistant turn is recorded for the request.
C2_FailureLeavesNoAssistantTurn ==
    (/\ last.op = "process_request"
     /\ cls = "MultiAIAgent"
     /\ ~Rejected(last.arg)
     /\ last.outcome.kind = "raise")
    => /\ Contains(last.value, ApologyTerm)
       /\ Contains(last.value, last.outcome.msg)
       /\ \A i \in 1..Len(last.turns) : last.turns[i].role # "assistant"

\* C3: process_request with an input that fails validation returns the fixed
\* "input invalid" message, makes no provider call and leaves the history as
\* it was before the call.
C3_InvalidInputLeavesHistory ==
    [][(IsCall("process_request") /\ Rejected(last'.arg))
        => /\ last'.value = InvalidInputMsg
           /\ ~last'.raised
           /\ last'.calls = 0
           /\ conversation_history' = conversation_history]_vars

\* an over-long input was rejected on an agent that holds turns
C3_Witness ==
    /\ last.op = "process_request"
    /\ Len(last.arg.s) = 2001
    /\ last.value = InvalidInputMsg
    /\ Len(conversation_history) = 20

\* C4: for every agent class and every exception raised while generating or
\* sanitizing a reply, process_request does not raise and returns the apology
\* prefix followed by the exception message.
C4_ApologyPlusMessage ==
    (/\ last.op = "process_request"
     /\ ~Rejected(last.arg)
     /\ (last.outcome.kind = "raise" \/ last.outcome.content.kind = "obj"))
    => /\ ~last.raised
       /\ last.value = ApologyPrefix \o
              (IF last.outcome.kind = "raise" THEN last.outcome.msg ELSE NoSplitMsg)

\* C5: after each successful switch_provider call among openai, claude and
\* qwen, get_provider_info()["provider"] is the name switched to and the
\* history is what it was before the call.
C5_SwitchKeepsHistory ==
    [][(IsCall("switch_provider") /\ ~last'.raised /\ last'.arg.s \in Providers)
        => /\ GetProviderInfo(provider', config').provider = last'.arg.s
           /\ conversation_history' = conversation_history]_vars

\* a second switch happened on an agent that holds turns
C5_Witness ==
    /\ last.op = "switch_provider" /\ ~last.raised
    /\ steps = 2
    /\ provider = "qwen"
    /\ GetProviderInfo(provider, config).model = "qwen-turbo"
    /\ Len(conversation_history) = 20

\* C6: switch_provider with a name outside {openai, claude, qwen} raises an
\* invalid-provider error and leaves the provider, the resolved configuration,
\* the client handle and the history unchanged.
C6_InvalidSwitchChangesNothing ==
    [][(IsCall("switch_provider") /\ last'.arg.s \notin {"openai", "claude", "qwen"})
        => /\ last'.raised /\ last'.error = "ValueError"
           /\ UNCHANGED <<provider, config, client, conversation_history>>]_vars

\* the invalid switch came after a switch to claude
C6_Witness ==
    /\ last.op = "switch_provider" /\ last.raised
    /\ last.arg.s = "not_a_real_provider"
    /\ provider = "claude" /\ client.kind = "Anthropic"
    /\ conversation_history # <<>>

\* turn i of the history is a user turn followed by the assistant turn of
\* its own request
AnsweredAt(h, i) ==
    /\ h[i].role = "user"
    /\ i < Len(h)
    /\ h[i + 1].role = "assistant"
    /\ h[i + 1].timestamp = h[i].timestamp + 1

\* C9 (as stated): in sequential use, after any sequence of completed requests
\* and clears the history strictly alternates user and assistant turns and
\* each recorded user turn is immediately followed by the assistant turn of
\* the same request.
C9_StrictAlternation ==
    \A i \in 1..Len(conversation_history) :
        \/ AnsweredAt(conversation_history, i)
        \/ /\ conversation_history[i].role = "assistant"
           /\ i > 1
           /\ AnsweredAt(conversation_history, i - 1)

\* C9 (amended): every process_request on valid input appends the user turn
\* before the provider is called and, unless generating or sanitizing the
\* reply raises, the assistant turn after it; after any sequence of completed
\* requests and clears every recorded assistant turn is the oldest entry or
\* immediately preceded by the user turn of the same request.
C9_AssistantFollowsItsUserTurn ==
    /\ \A i \in 1..Len(conversation_history) :
          conversation_history[i].role = "assistant"
          => (i = 1 \/ AnsweredAt(conversation_history, i - 1))
    /\ (last.op = "process_request" /\ ~Rejected(last.arg))
       => /\ Len(last.turns) = (IF last.caught THEN 1 ELSE 2)
          /\ last.turns[1].role = "user" /\ last.turns[1].content = last.arg.s
          /\ last.calls > 0
             => /\ last.seen # <<>>
                /\ last.seen[Len(last.seen)] = last.turns[1]
                /\ \A i \in 1..Len(last.turns) :
                      last.turns[i].role = "assistant"
                      => last.turns[i].timestamp > last.turns[1].timestamp
          /\ ~last.caught
             => /\ last.turns[2] = conversation_history[Len(conversation_history)]
                /\ last.turns[2].role = "assistant"
                /\ last.turns[2].content = last.value
                /\ last.turns[1] = conversation_history[Len(conversation_history) - 1]
          /\ last.caught
             => last.turns[1] = conversation_history[Len(conversation_history)]

\* a request whose provider call raised left its user turn unanswered, and a
\* later request was answered
C9_Witness ==
    /\ last.op = "process_request" /\ ~last.caught /\ Len(last.turns) = 2
    /\ Len(conversation_history) = 20
    /\ conversation_history[18].role = "user"
    /\ conversation_history[19].role = "user"
    /\ conversation_history[20].role = "assistant"

\* C7: constructing the multi-provider agent with a provider name outside
\* {openai, claude, qwen} raises an invalid-provider error during construction,
\* before any provider client is created or any provider call is made, and no
\* agent instance results.
C7_InvalidProviderFailsConstruction ==
    [][(/\ IsCall("construct")
        /\ last'.class = "MultiAIAgent"
        /\ last'.arg.s \notin {"openai", "claude", "qwen"})
        => /\ last'.raised /\ last'.error = "ValueError"
           /\ last'.created = 0 /\ last'.calls = 0
           /\ UNCHANGED <<constructed, cls, provider, config, client>>]_vars

\* the construction failed with the provider packages installed, and no
\* instance exists
C7_Witness ==
    /\ last.op = "construct" /\ last.class = "MultiAIAgent"
    /\ last.arg.s = "not_a_real_provider"
    /\ last.raised /\ last.error = "ValueError"
    /\ installed = Packages
    /\ ~constructed

\* C10: validate_provider_config for the openai provider accepts a non-empty
\* API key that does not start with "sk-" whenever the configured OpenAI base
\* URL contains "bigmodel.cn".
C10_VendorKeyAccepted ==
    (/\ last.op = "validate_provider_config"
     /\ provider = "openai"
     /\ config.api_key # ""
     /\ ~StartsWith(config.api_key, "sk-")
     /\ Contains(Getenv("OPENAI_BASE_URL", OpenAIBaseUrl), "bigmodel.cn"))
    => last.ok

\* C8: when process_request is invoked concurrently from several threads on
\* one agent whose provider call always succeeds, under every interleaving
\* each call returns a non-empty string and no exception escapes any thread.
C8_ConcurrentCallsReturnText ==
    \A t \in Threads :
        (Frame(t).pc = "done" /\ Frame(t).outcome.kind = "reply")
        => (Frame(t).result # "" /\ ~Frame(t).escaped)

\* the base URL the environment asks for names no vendor endpoint
GenericEndpoint == ~Contains(Getenv("OPENAI_BASE_URL", ""), "bigmodel.cn")

\* the provider's format rule for a key k
KeyFormatOk(p, k) ==
    CASE p = "openai" -> Len(k) >= 3 /\ SubSeq(k, 1, 3) = "sk-"
      [] p = "claude" -> Len(k) >= 7 /\ SubSeq(k, 1, 7) = "sk-ant-"
      [] p = "qwen" -> Len(k) >= 10
      [] OTHER -> TRUE

\* C11: validate_provider_config never raises; it returns (False, message)
\* when the resolved API key is empty, for every provider; otherwise it
\* returns True exactly when the key satisfies the provider's format rule
\* (openai: 'sk-' prefix in the generic case; claude: 'sk-ant-' prefix;
\* qwen: at least 10 characters).
C11_ValidateProviderConfigRules ==
    [][IsCall("validate_provider_config") =>
        /\ ~last'.raised
        /\ config.api_key = "" => (~last'.ok /\ last'.value # "")
        /\ (config.api_key # "" /\ (provider = "openai" => GenericEndpoint)) =>
              (last'.ok <=> KeyFormatOk(provider, config.api_key))
        /\ ~last'.ok => last'.value # ""]_vars

C11_Witness ==
    /\ last.op = "validate_provider_config"
    /\ provider = "qwen"
    /\ config.api_key # "" /\ Len(config.api_key) < QwenMinKeyLength
    /\ ~last.ok

\* C12: for the openai provider the base URL of the agent's resolved
\* configuration equals OPENAI_BASE_URL when that variable is set, and
\* https://api.openai.com/v1 otherwise, at construction and after every
\* switch back to openai.
C12_BaseUrlFromEnvironment ==
    (constructed /\ cls = "MultiAIAgent" /\ provider = "openai") =>
        config.base_url =
            (IF env["OPENAI_BASE_URL"].kind = "none"
             THEN "https://api.openai.com/v1" ELSE env["OPENAI_BASE_URL"].s)

\* C13: a multi-provider openai agent constructed with an empty API key
\* exists with its client handle absent (None); its first process_request on
\* valid input then returns a canned message instead of raising.
C13_EmptyKeyLeavesClientAbsent ==
    (last.op = "construct" /\ ~last.raised /\ cls = "MultiAIAgent"
        /\ provider = "openai" /\ config.api_key = "")
    => client.kind = "None"

\* the non-blank lines of s, each trimmed, in order, joined by single newlines
RECURSIVE TrimmedLinesFrom(_, _, _)
TrimmedLinesFrom(s, i, line) ==
    LET t == Strip(line)
    IN  IF i > Len(s) THEN t
        ELSE IF CharAt(s, i) = "\n"
        THEN LET rest == TrimmedLinesFrom(s, i + 1, "")
             IN  IF t = "" THEN rest
                 ELSE IF rest = "" THEN t
                 ELSE t \o "\n" \o rest
        ELSE TrimmedLinesFrom(s, i + 1, line \o CharAt(s, i))

\* C14: sanitize_response returns a non-empty string for every input: the
\* fixed fallback message for an input that is empty, absent, or only
\* whitespace and newlines; otherwise the non-blank lines, each trimmed, in
\* original order, joined by single newlines.
C14_SanitizeNeverEmpty ==
    last.op = "sanitize_response" =>
        /\ ~last.raised
        /\ last.value # ""
        /\ IF last.arg.kind = "none" \/ Blank(last.arg.s)
           THEN last.value = FallbackMsg
           ELSE last.value = TrimmedLinesFrom(last.arg.s, 1, "")

C16_EmptyScriptRejectedWithoutToolchain ==
    (last.op = "validate_shell_script"
        /\ (last.arg.kind = "none" \/ last.arg.s = ""))
    => (~last.raised /\ ~last.ok /\ last.files = 0 /\ last.runs = 0)

\* C17: every temporary file created by a validate_code call (python, go,
\* shell) is deleted before the call returns, on every path: toolchain
\* success, non-zero exit, timeout, toolchain missing, and failure while
\* writing the code to the file.
C17_TempFilesDeleted ==
    tempfiles = {} /\ (last.op = "validate_code" => last.unlinked = last.files)

\* C18: validate_code never raises; syntax errors, toolchain-invocation errors
\* and timeouts yield (False, message); a language tag outside python, go,
\* yaml, shell, markdown yields (True, 'not implemented' message).
C18_ValidateCodeNeverRaises ==
    [][IsCall("validate_code") =>
        /\ ~last'.raised
        /\ last'.value # ""
        /\ \A tool \in {"exit1", "timeout", "missing"} :
              (last'.language \in {"python", "go", "shell"} /\ last'.runs = 1
                  /\ last' = [last' EXCEPT
                        !.ok = ValidateCodeOn(last'.arg, last'.language, tool).ok,
                        !.value = ValidateCodeOn(last'.arg, last'.language, tool).message])
              => ~last'.ok
        /\ (last'.language = "python" /\ last'.arg.kind = "str"
               /\ last'.arg.s \in Malformed) => ~last'.ok
        /\ last'.language \notin Languages =>
              (last'.ok /\ last'.value = NotImplementedMsg)]_vars

C18_Witness ==
    /\ last.op = "validate_code"
    /\ last.language = "shell"
    /\ last.value = "Shell validation error: " \o TimeoutMsg
    /\ ~last.ok /\ ~last.raised /\ last.runs = 1

\* C19: after UI startup with a supported default provider and the provider
\* packages installed, the agents map holds an agent for each of the four
\* personas operations, go, monitoring and ansible, each constructed with the
\* provider name and exposing it as its provider.
C19_AllPersonasConstructed ==
    (default_provider \in Providers /\ installed = Packages) =>
        /\ DOMAIN agents = Personas
        /\ \A a \in DOMAIN agents : agents[a].provider = default_provider

\* C20: the clear button empties the selected persona's agent history and
\* its transcript, and leaves every other persona's transcript and agent
\* history, and the selection, unchanged.
C20_ClearOnlySelectedPersona ==
    [][IsCall("clear_chat") =>
        /\ current_agent' = current_agent
        /\ DOMAIN agents' = DOMAIN agents
        /\ agents'[current_agent].history = <<>>
        /\ current_agent \in DOMAIN chat_history'
        /\ chat_history'[current_agent] = <<>>
        /\ \A a \in Personas \ {current_agent} :
              /\ a \in DOMAIN chat_history' <=> a \in DOMAIN chat_history
              /\ a \in DOMAIN chat_history => chat_history'[a] = chat_history[a]
              /\ a \in DOMAIN agents => agents'[a].history = agents[a].history]_vars

C20_Witness ==
    /\ last.op = "clear_chat"
    /\ last.turns # <<>> /\ last.seen # <<>>
    /\ chat_history[current_agent] = <<>>
    /\ \E a \in DOMAIN chat_history : chat_history[a] # <<>>

----------------------------------------------------------------------------
(* Properties of the status checks *)

\* unset, empty or the placeholder your_<name>_here
NotConfigured(var_name) ==
    Getenv(var_name, "") = "" \/ Getenv(var_name, "") = Placeholder(var_name)

\* C22: every status-reporting component reports a variable as not configured
\* when it is unset, empty or equal to its placeholder your_<name>_here: the
\* environment check of the verification script does not count it, the status
\* map of the page shows "not configured" for it, and the vendor configuration
\* checker does not pass on such an OPENAI_API_KEY.
C22_PlaceholderIsNotConfigured ==
    /\ last.op = "check_system" =>
           \A v \in CheckedEnvVars : NotConfigured(v) => v \notin last.report.configured
    /\ last.op = "check_api_status" =>
           /\ NotConfigured("OPENAI_API_KEY") => last.report.openai = NotConfiguredText
           /\ NotConfigured("QWEN_API_KEY") => last.report.qwen = NotConfiguredText
    /\ last.op = "check_zhipuai_config" =>
           (NotConfigured("OPENAI_API_KEY") => ~last.ok)

\* the part of C22 the page and the vendor checker satisfy
C22_PageAndVendorChecker ==
    /\ last.op = "check_api_status" =>
           /\ NotConfigured("OPENAI_API_KEY") => last.report.openai = NotConfiguredText
           /\ NotConfigured("QWEN_API_KEY") => last.report.qwen = NotConfiguredText
    /\ last.op = "check_zhipuai_config" =>
           (NotConfigured("OPENAI_API_KEY") => ~last.ok)

\* the checks as C21 states them
StatedChecks ==
    [structure |-> \A p \in StructureChecks : p \in disk,
     dependencies |-> 10 * Cardinality(Dependencies \cap installed) >= 8 * 9,
     environment |-> Cardinality({v \in CheckedEnvVars : ~NotConfigured(v)}) >= 2,
     test_files |-> \A f \in TestFiles : f \in disk /\ f \notin thin]

\* C21: the verification script exits 0 exactly when at least 3 of its 4
\* checks pass, the structure and test-file checks passing only when all their
\* items pass, the dependency check iff at least 80% of the 9 packages import,
\* the environment check iff at least 2 of the 5 variables are configured.
C21_ExitCodeFromThreeOfFour ==
    last.op = "check_system" =>
        (last.value = "0" <=>
            Cardinality({k \in DOMAIN StatedChecks : StatedChecks[k]}) >= 3)

\* the thresholds of C21 over the checks as the script evaluates them
C21_ThresholdsOverOwnChecks ==
    last.op = "check_system" =>
        /\ last.value = "0" <=>
               Cardinality({k \in DOMAIN last.report.checks : last.report.checks[k]}) >= 3
        /\ last.report.checks.dependencies <=>
               Cardinality(Dependencies \cap installed) >= 8
        /\ last.report.checks.environment <=> Cardinality(last.report.configured) >= 2

----------------------------------------------------------------------------
(* Properties of the conversation context *)

\* the i-th line of the context of a history whose k most recent turns are shown
ContextLineOf(hist, k, i) ==
    hist[Len(hist) - k + i].role \o ": " \o hist[Len(hist) - k + i].content

\* C23: get_conversation_context returns the empty string when the history is
\* empty, and otherwise a header line followed by one "role: content" line for
\* each of the min(10, len(history)) most recent turns, in history order; older
\* turns never appear.
C23_ContextIsHeaderAndRecentTurns ==
    last.op = "get_conversation_context" =>
        LET hist == conversation_history
            k == Min(10, Len(hist))
        IN  IF hist = <<>> THEN last.value = ""
            ELSE last.value =
                     JoinLines(<<ContextHeader>>
                               \o [i \in 1..k |-> ContextLineOf(hist, k, i)]
                               \o <<"">>)

\* a context was rendered from a history of more than ten turns
C23_Witness ==
    /\ last.op = "get_conversation_context"
    /\ Len(conversation_history) > 10
    /\ Len(SplitLines(last.value)) = 12
    /\ conversation_history[1].timestamp # 1

\* a context was asked of an agent without history
C23_EmptyCase == last.op = "get_conversation_context" /\ last.value = ""

\* C24: the context sent to the provider for a request holds only turns
\* recorded before that request: on the first process_request of an agent with
\* empty history no context message is sent (the OpenAI payload is exactly
\* [system prompt, user message]), and the current user input never appears in
\* the context in addition to the user message.
C24_ContextHoldsEarlierTurnsOnly ==
    [][IsCall("process_request") /\ last'.calls > 0 =>
          /\ GetConversationContext(last'.seen)
                 = GetConversationContext(conversation_history)
          /\ conversation_history = <<>> =>
                 OpenAIMessages(config.system_prompt, last'.seen, last'.arg.s)
                     = <<[role |-> "system", content |-> config.system_prompt],
                         [role |-> "user", content |-> last'.arg.s]>>]_vars

----------------------------------------------------------------------------
(* Properties of the page, the switch and the concurrent history *)

\* C25: in every state of the page (after startup, persona selection, provider
\* switch, clear and chat submission) the selected persona is a key of the
\* agents map, so no rendering step looks up a missing agent.
C25_SelectedPersonaHasAgent == current_agent \in DOMAIN agents

\* the kinds of client handle _initialize_client gives for a provider
ClientKinds(p) ==
    IF p = "openai" THEN {"OpenAI"}
    ELSE IF p = "claude" THEN {"Anthropic"}
    ELSE {"Generation", "None"}

\* C26: switch_provider is all-or-nothing: when constructing the new
\* provider's client fails, the provider, configuration and client handle stay
\* those of the previous provider; after every switch the client handle and
\* the configuration correspond to the provider named by the provider field.
C26_SwitchIsAllOrNothing ==
    [][IsCall("switch_provider") =>
          /\ last'.raised =>
                 /\ provider' = provider
                 /\ config' = config
                 /\ client' = client
          /\ client'.kind \in ClientKinds(provider')
          /\ config' = GetProviderConfig(agent_type, provider')]_vars

\* every process_request call has returned
AllReturned == \A t \in Threads : Frame(t).pc = "done"

\* C27: under concurrent process_request calls on one agent no recorded turn
\* is lost except by oldest-first eviction: once all calls have returned, the
\* history holds the most recent 20 of the turns that were appended, all of
\* them when there are at most 20.
C27_NoTurnLostConcurrently ==
    AllReturned =>
        /\ Len(conversation_history) = Min(20, Len(appended))
        /\ conversation_history = LastN(20, appended)

\* C28: the credential status shown for Claude is consistent with the agent:
\* whenever the status map reports Claude as configured,
\* validate_provider_config of an agent switched to claude does not fail with
\* "API key not set", and whenever the agent holds a non-empty Claude key the
\* status map does not report Claude as not configured.
C28_ClaudeStatusMatchesAgent ==
    (last.op = "validate_provider_config" /\ provider = "claude") =>
        /\ CheckApiStatus.claude # NotConfiguredText =>
               last.value # "claude API key not set"
        /\ config.api_key # "" => CheckApiStatus.claude # NotConfiguredText

\* non-empty keys an otherwise equal agent could hold
OtherKeys == {"sk-another-key", "sk-ant-another-key"}

\* C29: the introspection operations do not reveal the API key: for two agents
\* that differ only in the value of a non-empty API key, get_provider_info and
\* get_agent_info return identical records.
C29_InfoDoesNotRevealKey ==
    config.api_key # "" =>
        \A k \in OtherKeys :
            /\ last.op = "get_agent_info" =>
                   last.report = GetAgentInfo(agent_type, [config EXCEPT !.api_key = k],
                                              conversation_history)
            /\ last.op = "get_provider_info" =>
                   last.report = GetProviderInfo(provider, [config EXCEPT !.api_key = k])

\* the part of C29 that get_provider_info satisfies
C29_ProviderInfoDoesNotRevealKey ==
    (config.api_key # "" /\ last.op = "get_provider_info") =>
        \A k \in OtherKeys :
            last.report = GetProviderInfo(provider, [config EXCEPT !.api_key = k])

\* C30: the inventory produced by generate_inventory_file(environment), for
\* every environment name, is accepted by the persona's own validator:
\* validate_ansible_code(inventory, 'ini') returns True.
C30_OwnInventoryAccepted ==
    (/\ last.op = "validate_ansible_code"
     /\ last.language = "ini"
     /\ \E e \in Environments : last.arg = Str(GenerateInventoryFile(e)))
    => (last.ok /\ ~last.raised)

\* the ini rule by itself: accepted exactly when every non-empty, non-comment,
\* non-section-header line contains '='
C30_IniRule ==
    (last.op = "validate_ansible_code" /\ last.language = "ini" /\ ~last.raised) =>
        (last.ok <=>
            \A i \in DOMAIN SplitLines(last.arg.s) :
                LET line == Strip(SplitLines(last.arg.s)[i])
                IN  \/ line = ""
                    \/ CharAt(line, 1) \in {"#", "["}
                    \/ \E j \in 1..Len(line) : CharAt(line, j) = "=")

====
